---- MODULE Spec2Model ----
(***************************************************************************)
(* sugar_path (src/lib.rs): normalize / resolve / relative over paths.     *)
(*                                                                         *)
(* A path is the sequence of its characters, each a one-character string:  *)
(* "/a/.." is <<"/", "a", "/", ".", ".">>.  The model is the build for     *)
(* target_family = "unix": cfg!(target_family = "windows") is a            *)
(* compile-time constant, false there, so the Windows branches of          *)
(* normalize, resolve and relative are not taken.  The collapse pass       *)
(* (normalize_to_component_vec) is the same code on every platform and is  *)
(* also modelled on component sequences that carry a Prefix.               *)
(***************************************************************************)
EXTENDS Naturals, Sequences, FiniteSets

VARIABLES
    path,        \* the receiver of the call (self)
    to,          \* the argument of relative
    CWD,         \* the value held by the Lazy cell CWD ("unset" before init)
    out,         \* the text the call returned
    op,          \* which call was made: "none", "normalize", "resolve", "relative"
    components,  \* collapse pass: the component sequence being iterated
    idx,         \* collapse pass: number of components consumed so far
    ret,         \* collapse pass: the output stack
    stage,       \* collapse pass: "peek", "loop", "done"
    osCwd,       \* the process's real working directory
    cell,        \* state of the Lazy cell: "incomplete", "running", "complete"
    initFn,      \* whether the Lazy still holds its closure (init is Some)
    reads,       \* number of times std::env::current_dir() was called
    tpc,         \* per thread: "idle", "deref", "init", "store", "wait",
                 \* "unwind", "panicked"
    local,       \* per thread: what current_dir() returned to it in the closure
    seen,        \* per thread: what its last deref of CWD observed
    calls,       \* per thread: number of resolve calls started
    chdirs       \* number of changes of the real working directory

vars == <<path, to, CWD, out, op, components, idx, ret, stage,
          osCwd, cell, initFn, reads, tpc, local, seen, calls, chdirs>>

pureVars == <<path, to, out, op>>
collapseVars == <<components, idx, ret, stage>>
lazyVars == <<osCwd, cell, initFn, reads, tpc, local, seen, calls, chdirs>>

----------------------------------------------------------------------------
(* Bounds *)

MaxLen == 5
MaxRelLen == 3
MaxComps == 3
NThreads == 2
MaxCalls == 2
MaxChdirs == 1

Alphabet == {"/", ".", "a", "b"}

SeqsUpTo(S, n) == UNION {[1..k -> S] : k \in 0..n}

\* The paths of the doc test of relative (lib.rs 66-77).
DocPaths ==
    { <<"/", "v", "a", "r">>,
      <<"/", "v", "a", "r", "/", "l", "i", "b">>,
      <<"/", "b", "i", "n">>,
      <<"/", "a", "/", "b", "/", "c", "/", "d">>,
      <<"/", "a", "/", "b", "/", "f", "/", "g">> }

Paths == SeqsUpTo(Alphabet, MaxLen) \cup DocPaths
RelPaths == SeqsUpTo(Alphabet, MaxRelLen) \cup DocPaths

\* Working directories the operating system can report: absolute, canonical.
Cwds == { <<"/">>, <<"/", "a">>, <<"/", "a", "/", "b">> }

----------------------------------------------------------------------------
(* std::path as used by the crate (unix) *)

RootDir == [kind |-> "RootDir", text |-> <<"/">>]
CurDir == [kind |-> "CurDir", text |-> <<".">>]
ParentDir == [kind |-> "ParentDir", text |-> <<".", ".">>]
Normal(t) == [kind |-> "Normal", text |-> t]
Prefix(t) == [kind |-> "Prefix", text |-> t]

\* Component::as_os_str
as_os_str(c) == c.text

\* Path::has_root; on unix Path::is_absolute is has_root
is_absolute(p) == p # <<>> /\ p[1] = "/"

RECURSIVE RunLen(_)
\* number of leading non-separator characters of p
RunLen(p) ==
    IF p = <<>> \/ Head(p) = "/" THEN 0 ELSE 1 + RunLen(Tail(p))

RECURSIVE Tokens(_)
\* the maximal separator-free runs of p, left to right
Tokens(p) ==
    IF p = <<>> THEN <<>>
    ELSE IF Head(p) = "/" THEN Tokens(Tail(p))
    ELSE LET n == RunLen(p)
         IN  <<SubSeq(p, 1, n)>> \o Tokens(SubSeq(p, n + 1, Len(p)))

\* Components::parse_single_component: "." yields nothing, ".." ParentDir
ParseSingle(tok) ==
    IF tok = <<".">> THEN <<>>
    ELSE IF tok = <<".", ".">> THEN <<ParentDir>>
    ELSE <<Normal(tok)>>

RECURSIVE ParseBody(_)
ParseBody(toks) ==
    IF toks = <<>> THEN <<>>
    ELSE ParseSingle(Head(toks)) \o ParseBody(Tail(toks))

\* Components::include_cur_dir: a leading "." of a rootless path is kept
include_cur_dir(p) ==
    /\ ~is_absolute(p)
    /\ Len(p) >= 1
    /\ p[1] = "."
    /\ (Len(p) = 1 \/ p[2] = "/")

\* Path::components
Components(p) ==
    (IF is_absolute(p) THEN <<RootDir>> ELSE <<>>)
    \o (IF include_cur_dir(p) THEN <<CurDir>> ELSE <<>>)
    \o ParseBody(Tokens(p))

\* PathBuf::push: an absolute argument replaces the buffer; otherwise a
\* separator is added unless the buffer is empty or already ends with one.
push(buf, p) ==
    IF is_absolute(p) THEN p
    ELSE IF buf # <<>> /\ buf[Len(buf)] # "/" THEN buf \o <<"/">> \o p
    ELSE buf \o p

----------------------------------------------------------------------------
(* normalize_to_component_vec, lib.rs 83-124 *)

HasPrefixFirst(comps) == comps # <<>> /\ comps[1].kind = "Prefix"

\* a peek that matches any first component, and does not consume it
InitialRetAnyFirst(comps) ==
    IF comps # <<>> THEN <<comps[1]>> ELSE <<>>

\* lines 85-90: the initial value of ret
InitialRet(comps) ==
    IF HasPrefixFirst(comps) THEN <<comps[1]>> ELSE <<>>

\* components.next() executed whether or not the first component is a Prefix
RestComponentsAlwaysNext(comps) ==
    IF comps # <<>> THEN Tail(comps) ELSE comps

\* lines 85-90: what the iterator still holds when the loop starts
RestComponents(comps) ==
    IF HasPrefixFirst(comps) THEN Tail(comps) ELSE comps

Last(r) == r[Len(r)]
Pop(r) == SubSeq(r, 1, Len(r) - 1)

is_last_none(r) == IF r = <<>> THEN TRUE ELSE Last(r).kind = "Prefix"
is_last_root(r) == Last(r).kind = "RootDir"
is_last_parent_dir(r) == Last(r).kind = "ParentDir"

\* the is_last_root test left out: ".." right after the root is pushed
ParentDirArmNoRootCheck(r, c) ==
    IF is_last_none(r) THEN Append(r, c)
    ELSE IF is_last_parent_dir(r) \/ is_last_root(r) THEN Append(r, c)
    ELSE Pop(r)

\* lines 99-117: the ParentDir arm
ParentDirArm(r, c) ==
    IF is_last_none(r) THEN Append(r, c)
    ELSE IF is_last_root(r) THEN r
    ELSE IF is_last_parent_dir(r) THEN Append(r, c)
    ELSE Pop(r)

\* lines 93-121: one iteration of the loop.  A Prefix cannot come here
\* (line 94, unreachable!()): Path::components yields it first only.
LoopBody(r, c) ==
    CASE c.kind = "RootDir" -> Append(r, c)
      [] c.kind = "CurDir" -> r
      [] c.kind = "ParentDir" -> ParentDirArm(r, c)
      [] c.kind = "Normal" -> Append(r, c)

RECURSIVE Loop(_, _)
\* lines 92-123
Loop(r, cs) ==
    IF cs = <<>> THEN r ELSE Loop(LoopBody(r, Head(cs)), Tail(cs))

\* lines 85-123 on a component sequence
Collapse(comps) == Loop(InitialRet(comps), RestComponents(comps))

normalize_to_component_vec(p) == Collapse(Components(p))

RECURSIVE PushAll(_, _)
\* fold of PathBuf::push over texts
PushAll(acc, texts) ==
    IF texts = <<>> THEN acc
    ELSE PushAll(push(acc, Head(texts)), Tail(texts))

Texts(comps) == [i \in 1..Len(comps) |-> as_os_str(comps[i])]

\* lib.rs 127-135
component_vec_to_path_buf(comps) == PushAll(<<>>, Texts(comps))

----------------------------------------------------------------------------
(* impl SugarPath for Path, lib.rs 137-261 (the unix branches) *)

\* the empty-result fallback left out
normalizeNoFallback(p) ==
    component_vec_to_path_buf(normalize_to_component_vec(p))

\* lines 150-154
normalize(p) ==
    LET comps == normalize_to_component_vec(p)
    IN  component_vec_to_path_buf(
            IF Len(comps) = 0 THEN Append(comps, CurDir) ELSE comps)

\* a relative path normalized without the working directory
resolveNoCwd(cwd, p) == normalize(p)

\* the working directory joined as text in front of every path
resolveJoin(cwd, p) == normalize(cwd \o <<"/">> \o p)

\* lines 183-189; cwd is CWD.clone(), the value of the Lazy cell
resolve(cwd, p) ==
    IF is_absolute(p) THEN normalize(p)
    ELSE normalize(push(cwd, p))

\* the filter of lines 203-208 and 213-218
keep(c) == c.kind \in {"Normal", "Prefix", "RootDir"}
Filtered(comps) == SelectSeq(comps, keep)

\* slice::get with a 0-based index; <<>> is None, <<x>> is Some(x)
Get(s, i) == IF i < Len(s) THEN <<s[i + 1]>> ELSE <<>>

RECURSIVE Walk(_, _, _)
\* lines 227-245: the value of i when the loop is left
Walk(bc, tc, i) ==
    LET longest_len == IF Len(bc) > Len(tc) THEN Len(bc) ELSE Len(tc)
    IN  IF i < longest_len /\ Get(bc, i) = Get(tc, i)
        THEN Walk(bc, tc, i + 1)
        ELSE i

\* the break of line 242 left out: the loop runs to longest_len
CommonLenNoBreak(bc, tc) ==
    IF Len(bc) > Len(tc) THEN Len(bc) ELSE Len(tc)

\* lines 221-245
CommonLen(bc, tc) == Walk(bc, tc, 0)

RECURSIVE PushDots(_, _)
\* lines 246-250: one ret.push("..") per remaining base component
PushDots(buf, n) ==
    IF n = 0 THEN buf ELSE PushDots(push(buf, <<".", ".">>), n - 1)

\* base and target taken the other way round
relativeSwapped(cwd, self, t) ==
    LET base == resolve(cwd, self)
        target == resolve(cwd, t)
    IN  IF Components(base) = Components(target) THEN <<>>
        ELSE LET bc == Filtered(Components(base))
                 tc == Filtered(Components(target))
                 i == CommonLen(bc, tc)
             IN  PushAll(PushDots(<<>>, Len(bc) - i),
                         Texts(SubSeq(tc, i + 1, Len(tc))))

\* lines 193-260; PathBuf equality (line 197) compares components
relative(cwd, self, t) ==
    LET base == resolve(cwd, t)
        target == resolve(cwd, self)
    IN  IF Components(base) = Components(target) THEN <<>>
        ELSE LET bc == Filtered(Components(base))
                 tc == Filtered(Components(target))
                 i == CommonLen(bc, tc)
             IN  PushAll(PushDots(<<>>, Len(bc) - i),
                         Texts(SubSeq(tc, i + 1, Len(tc))))

----------------------------------------------------------------------------
(* Specification of the three calls on bounded inputs *)

Threads == 1..NThreads

CollapseIdle ==
    /\ components = <<>>
    /\ idx = 0
    /\ ret = <<>>
    /\ stage = "done"

\* the Lazy cell already forced, no thread running
LazyForced ==
    /\ cell = "complete"
    /\ initFn = FALSE
    /\ osCwd = CWD
    /\ reads = 1
    /\ tpc = [t \in Threads |-> "idle"]
    /\ local = [t \in Threads |-> <<>>]
    /\ seen = [t \in Threads |-> <<>>]
    /\ calls = [t \in Threads |-> 0]
    /\ chdirs = 0

Init ==
    /\ path \in Paths
    /\ CWD \in Cwds
    /\ to = <<>>
    /\ out = <<>>
    /\ op = "none"
    /\ CollapseIdle
    /\ LazyForced

CallNormalize ==
    /\ op = "none"
    /\ out' = normalize(path)
    /\ op' = "normalize"
    /\ UNCHANGED <<path, to, CWD, collapseVars, lazyVars>>

CallResolve ==
    /\ op = "none"
    /\ out' = resolve(CWD, path)
    /\ op' = "resolve"
    /\ UNCHANGED <<path, to, CWD, collapseVars, lazyVars>>

CallRelative ==
    /\ op = "none"
    /\ path \in RelPaths
    /\ \E t \in RelPaths :
          /\ to' = t
          /\ out' = relative(CWD, path, t)
    /\ op' = "relative"
    /\ UNCHANGED <<path, CWD, collapseVars, lazyVars>>

Next == CallNormalize \/ CallResolve \/ CallRelative

Spec == Init /\ [][Next]_vars

----------------------------------------------------------------------------
(* Properties of the three calls, checked under Spec *)

HasKind(comps, k) == \E i \in 1..Len(comps) : comps[i].kind = k

\* C1: normalize is idempotent: normalizing the text a normalize call
\* returned gives that text again, the "." of an empty collapse included.
NormalizeIdempotent ==
    op = "normalize" => normalize(out) = out

\* a normalize call on a path with a ".." segment whose result differs
\* from the input
NormalizeIdempotentWitness ==
    /\ op = "normalize"
    /\ HasKind(Components(path), "ParentDir")
    /\ out # path
    /\ normalize(out) = out

\* C2: resolve always returns an absolute path.
ResolveIsAbsolute ==
    op = "resolve" => is_absolute(out)

\* a relative path with more leading ".." than the cwd has named segments
ResolveIsAbsoluteWitness ==
    /\ op = "resolve"
    /\ CWD = <<"/", "a">>
    /\ Len(path) >= 4
    /\ SubSeq(path, 1, 4) = <<".", ".", "/", ".">>
    /\ out = <<"/">>

\* C5: resolve is idempotent for a fixed cached cwd.
ResolveIdempotent ==
    op = "resolve" => resolve(CWD, out) = out

\* a relative input resolved against a cwd below the root: the second
\* call takes the absolute branch
ResolveIdempotentWitness ==
    /\ op = "resolve"
    /\ ~is_absolute(path)
    /\ CWD # <<"/">>
    /\ HasKind(Components(out), "Normal")
    /\ is_absolute(out)
    /\ resolve(CWD, out) = out

\* C6: normalize never returns empty text; an input whose collapse is
\* empty gives exactly ".", and for any other input no "." segment is in
\* the result.
NormalizeNeverEmpty ==
    op = "normalize" =>
        /\ out # <<>>
        /\ IF normalize_to_component_vec(path) = <<>>
           THEN out = <<".">>
           ELSE \A i \in 1..Len(Tokens(out)) : Tokens(out)[i] # <<".">>

\* a non-empty input that collapses to nothing
NormalizeNeverEmptyWitness ==
    /\ op = "normalize"
    /\ HasKind(Components(path), "Normal")
    /\ normalize_to_component_vec(path) = <<>>
    /\ out = <<".">>

EndsWithSep(p) == p # <<>> /\ p[Len(p)] = "/"

\* C8: normalize preserves trailing separators: an input that ends with a
\* separator after its last segment gives a result that ends with one.
TrailingSeparatorPreserved ==
    (op = "normalize" /\ EndsWithSep(path) /\ Tokens(path) # <<>>)
    => EndsWithSep(out)

\* C3 as stated: resolve(base + "/" + relative(base, target)) equals
\* resolve(target), for absolute base (the receiver) and target.
RoundTripAsStated ==
    (op = "relative" /\ is_absolute(path) /\ is_absolute(to))
    => resolve(CWD, path \o <<"/">> \o out) = resolve(CWD, to)

\* C3 amended: resolve(target + "/" + relative(base, target)) equals
\* resolve(base): the result leads from the argument to the receiver.
RoundTripFromArgument ==
    (op = "relative" /\ is_absolute(path) /\ is_absolute(to))
    => resolve(CWD, to \o <<"/">> \o out) = resolve(CWD, path)

\* two absolute paths that part below a common directory
RoundTripWitness ==
    /\ op = "relative"
    /\ path = <<"/", "a", "/", "b", "/", "c", "/", "d">>
    /\ to = <<"/", "a", "/", "b", "/", "f", "/", "g">>
    /\ out = <<".", ".", "/", ".", ".", "/", "c", "/", "d">>

Min(a, b) == IF a < b THEN a ELSE b

\* length of the longest common prefix of two sequences
RefCommon(b, t) ==
    CHOOSE k \in 0..Min(Len(b), Len(t)) :
        /\ \A j \in 1..k : b[j] = t[j]
        /\ k = Min(Len(b), Len(t)) \/ b[k + 1] # t[k + 1]

RECURSIVE JoinSep(_)
\* texts joined by the separator
JoinSep(texts) ==
    IF texts = <<>> THEN <<>>
    ELSE IF Len(texts) = 1 THEN texts[1]
    ELSE texts[1] \o <<"/">> \o JoinSep(Tail(texts))

\* the reference result of relative(from, t)
RefRelative(cwd, from, t) ==
    LET base == resolve(cwd, t)
        target == resolve(cwd, from)
        bc == Components(base)
        tc == Components(target)
        i == RefCommon(bc, tc)
    IN  IF base = target THEN <<>>
        ELSE JoinSep([j \in 1..(Len(bc) - i) |-> <<".", ".">>]
                     \o Texts(SubSeq(tc, i + 1, Len(tc))))

\* C4: relative(from, to) equals the reference result: empty for equal
\* resolved paths, else one ".." per base component after the longest
\* common prefix, then the target components after it; with the three
\* cases of the doc test.
RelativeMatchesReference ==
    op = "relative" =>
        /\ out = RefRelative(CWD, path, to)
        /\ (path = <<"/", "v", "a", "r">>
            /\ to = <<"/", "v", "a", "r", "/", "l", "i", "b">>)
           => out = <<".", ".">>
        /\ (path = <<"/", "b", "i", "n">>
            /\ to = <<"/", "v", "a", "r", "/", "l", "i", "b">>)
           => out = <<".", ".", "/", ".", ".", "/", "b", "i", "n">>
        /\ (path = <<"/", "a", "/", "b", "/", "c", "/", "d">>
            /\ to = <<"/", "a", "/", "b", "/", "f", "/", "g">>)
           => out = <<".", ".", "/", ".", ".", "/", "c", "/", "d">>

\* relative("/bin", "/var/lib") has returned "../../bin"
RelativeMatchesReferenceWitness ==
    /\ op = "relative"
    /\ path = <<"/", "b", "i", "n">>
    /\ to = <<"/", "v", "a", "r", "/", "l", "i", "b">>
    /\ out = <<".", ".", "/", ".", ".", "/", "b", "i", "n">>

----------------------------------------------------------------------------
(* The collapse pass of normalize_to_component_vec, one component a step *)

NormalNames == { <<"a">>, <<"b">> }
BodyComponents == {ParentDir} \cup {Normal(n) : n \in NormalNames}
Drive == Prefix(<<"C", ":">>)

\* how a sequence yielded by Path::components can start
Heads ==
    { <<>>, <<RootDir>>, <<CurDir>>,
      <<Drive>>, <<Drive, RootDir>>, <<Drive, CurDir>> }

\* the sequences Path::components can yield: a Prefix first only, a RootDir
\* at the start or right after the Prefix, a CurDir only in its place
ProducibleSeqs ==
    {h \o b : h \in Heads, b \in SeqsUpTo(BodyComponents, MaxComps)}

PureIdle ==
    /\ path = <<>>
    /\ to = <<>>
    /\ out = <<>>
    /\ op = "none"

InitCollapse ==
    /\ components \in ProducibleSeqs
    /\ idx = 0
    /\ ret = <<>>
    /\ stage = "peek"
    /\ CWD = <<"/">>
    /\ PureIdle
    /\ LazyForced

\* lines 84-90
PeekPrefix ==
    /\ stage = "peek"
    /\ ret' = InitialRet(components)
    /\ idx' = Len(components) - Len(RestComponents(components))
    /\ stage' = "loop"
    /\ UNCHANGED <<components, CWD, pureVars, lazyVars>>

\* the loop takes the next component, of kind k
Takes(k) ==
    /\ stage = "loop"
    /\ idx < Len(components)
    /\ components[idx + 1].kind = k

Iterate ==
    /\ ret' = LoopBody(ret, components[idx + 1])
    /\ idx' = idx + 1
    /\ UNCHANGED <<components, stage, CWD, pureVars, lazyVars>>

\* lines 95-97
LoopRootDir == Takes("RootDir") /\ Iterate

\* line 98
LoopCurDir == Takes("CurDir") /\ Iterate

\* lines 100-102
LoopParentDirLeading ==
    Takes("ParentDir") /\ is_last_none(ret) /\ Iterate

\* lines 104-106
LoopParentDirAtRoot ==
    Takes("ParentDir") /\ ~is_last_none(ret) /\ is_last_root(ret) /\ Iterate

\* lines 108-111
LoopParentDirRun ==
    /\ Takes("ParentDir")
    /\ ~is_last_none(ret)
    /\ ~is_last_root(ret)
    /\ is_last_parent_dir(ret)
    /\ Iterate

\* lines 112-114
LoopParentDirPop ==
    /\ Takes("ParentDir")
    /\ ~is_last_none(ret)
    /\ ~is_last_root(ret)
    /\ ~is_last_parent_dir(ret)
    /\ Iterate

\* lines 118-120
LoopNormal == Takes("Normal") /\ Iterate

\* line 123
Return ==
    /\ stage = "loop"
    /\ idx = Len(components)
    /\ stage' = "done"
    /\ UNCHANGED <<components, idx, ret, CWD, pureVars, lazyVars>>

NextCollapse ==
    \/ PeekPrefix
    \/ LoopRootDir
    \/ LoopCurDir
    \/ LoopParentDirLeading
    \/ LoopParentDirAtRoot
    \/ LoopParentDirRun
    \/ LoopParentDirPop
    \/ LoopNormal
    \/ Return

SpecCollapse == InitCollapse /\ [][NextCollapse]_vars

\* C9: the output stack is canonical after every processed component:
\* a Prefix only at index 0, no CurDir, no ParentDir right after a Normal,
\* the ParentDir entries one run at the start or right after the Prefix,
\* and no ParentDir in a stack that holds a RootDir.
CanonicalStack ==
    /\ \A i \in 1..Len(ret) : ret[i].kind = "Prefix" => i = 1
    /\ ~HasKind(ret, "CurDir")
    /\ \A i \in 2..Len(ret) :
          ret[i].kind = "ParentDir" => ret[i - 1].kind # "Normal"
    /\ \A i \in 1..Len(ret) :
          ret[i].kind = "ParentDir" =>
              \A j \in 1..(i - 1) :
                  \/ ret[j].kind = "ParentDir"
                  \/ j = 1 /\ ret[j].kind = "Prefix"
    /\ HasKind(ret, "RootDir") => ~HasKind(ret, "ParentDir")

\* the pass has finished on an input with a Prefix, a RootDir and a ".."
\* right after the root, which was dropped
CanonicalStackWitness ==
    /\ stage = "done"
    /\ Len(components) >= 4
    /\ SubSeq(components, 1, 3) = <<Drive, RootDir, ParentDir>>
    /\ components[4].kind = "Normal"
    /\ SubSeq(ret, 1, 3) = <<Drive, RootDir, components[4]>>

\* C10: the pass gives the same result in one batch or incrementally: with
\* the input split at any position into a and b, collapsing a and then
\* running the pass over that result followed by b gives the collapse of
\* the whole; the stack of the running pass is the collapse of a.
BatchEqualsIncremental ==
    LET a == SubSeq(components, 1, idx)
        b == SubSeq(components, idx + 1, Len(components))
    IN  /\ Collapse(Collapse(a) \o b) = Collapse(components)
        /\ stage # "peek" => ret = Collapse(a)

\* a split between a cwd-like absolute part and a part that ascends
\* through it, with the pass finished on the first part
BatchEqualsIncrementalWitness ==
    /\ stage = "loop"
    /\ idx = 2
    /\ Len(components) >= 4
    /\ components[1] = RootDir
    /\ components[2].kind = "Normal"
    /\ components[3] = ParentDir
    /\ components[4] = ParentDir
    /\ ret = <<RootDir, components[2]>>

----------------------------------------------------------------------------
(* The Lazy cell CWD, lib.rs 17-21, under concurrent resolve calls *)

\* the working directory was removed: std::env::current_dir() returns Err
Removed == <<>>

\* the working directory read from the environment by every call
CwdCloneFresh(cached, os) == os

\* line 186, CWD.clone(): the value held by the complete cell
CwdClone(cached, os) == cached

\* once_cell::sync::Lazy: of the threads that find the cell incomplete,
\* one takes the initialization (the state goes to running atomically)
LazyTakesInit(c) == c = "incomplete"

InitCwd ==
    /\ osCwd \in Cwds
    /\ cell = "incomplete"
    /\ initFn = TRUE
    /\ CWD = <<>>
    /\ reads = 0
    /\ tpc = [t \in Threads |-> "idle"]
    /\ local = [t \in Threads |-> <<>>]
    /\ seen = [t \in Threads |-> <<>>]
    /\ calls = [t \in Threads |-> 0]
    /\ chdirs = 0
    /\ PureIdle
    /\ CollapseIdle

\* resolve on an absolute path (lines 183-184): CWD is not touched
ResolveAbsolute(t) ==
    /\ tpc[t] = "idle"
    /\ calls[t] < MaxCalls
    /\ calls' = [calls EXCEPT ![t] = @ + 1]
    /\ UNCHANGED <<CWD, osCwd, cell, initFn, reads, tpc, local, seen, chdirs,
                   pureVars, collapseVars>>

\* resolve on a relative path (lines 185-186) reaches CWD.clone()
ResolveRelative(t) ==
    /\ tpc[t] = "idle"
    /\ calls[t] < MaxCalls
    /\ calls' = [calls EXCEPT ![t] = @ + 1]
    /\ tpc' = [tpc EXCEPT ![t] = "deref"]
    /\ UNCHANGED <<CWD, osCwd, cell, initFn, reads, local, seen, chdirs,
                   pureVars, collapseVars>>

\* the cell is complete: the call reads the cached value and returns
DerefComplete(t) ==
    /\ tpc[t] = "deref"
    /\ cell = "complete"
    /\ seen' = [seen EXCEPT
                  ![t] = <<[value |-> CwdClone(CWD, osCwd), os |-> osCwd]>>]
    /\ tpc' = [tpc EXCEPT ![t] = "idle"]
    /\ UNCHANGED <<CWD, osCwd, cell, initFn, reads, local, calls, chdirs,
                   pureVars, collapseVars>>

\* the cell is incomplete: this thread takes the initialization
DerefTakeInit(t) ==
    /\ tpc[t] = "deref"
    /\ LazyTakesInit(cell)
    /\ cell' = "running"
    /\ tpc' = [tpc EXCEPT ![t] = "init"]
    /\ UNCHANGED <<CWD, osCwd, initFn, reads, local, seen, calls, chdirs,
                   pureVars, collapseVars>>

\* another thread is running the closure: wait for it
DerefWait(t) ==
    /\ tpc[t] = "deref"
    /\ cell = "running"
    /\ tpc' = [tpc EXCEPT ![t] = "wait"]
    /\ UNCHANGED <<CWD, osCwd, cell, initFn, reads, local, seen, calls,
                   chdirs, pureVars, collapseVars>>

\* line 19: the closure is taken out of the Lazy and calls current_dir(),
\* which returns Ok; the cell is not complete yet
ReadEnvOk(t) ==
    /\ tpc[t] = "init"
    /\ initFn
    /\ osCwd # Removed
    /\ initFn' = FALSE
    /\ reads' = reads + 1
    /\ local' = [local EXCEPT ![t] = osCwd]
    /\ tpc' = [tpc EXCEPT ![t] = "store"]
    /\ UNCHANGED <<CWD, osCwd, cell, seen, calls, chdirs,
                   pureVars, collapseVars>>

\* line 19: current_dir() returns Err and unwrap() panics
ReadEnvErr(t) ==
    /\ tpc[t] = "init"
    /\ initFn
    /\ osCwd = Removed
    /\ initFn' = FALSE
    /\ reads' = reads + 1
    /\ tpc' = [tpc EXCEPT ![t] = "unwind"]
    /\ UNCHANGED <<CWD, osCwd, cell, local, seen, calls, chdirs,
                   pureVars, collapseVars>>

\* the closure was taken by an initialization that panicked: the Lazy
\* panics ("Lazy instance has previously been poisoned")
InitPoisoned(t) ==
    /\ tpc[t] = "init"
    /\ ~initFn
    /\ tpc' = [tpc EXCEPT ![t] = "unwind"]
    /\ UNCHANGED <<CWD, osCwd, cell, initFn, reads, local, seen, calls,
                   chdirs, pureVars, collapseVars>>

\* lines 20-21: the closure returns the value it read; the cell stores it
\* and becomes complete
Complete(t) ==
    /\ tpc[t] = "store"
    /\ CWD' = local[t]
    /\ cell' = "complete"
    /\ tpc' = [tpc EXCEPT ![t] = "deref"]
    /\ UNCHANGED <<osCwd, initFn, reads, local, seen, calls, chdirs,
                   pureVars, collapseVars>>

\* the panic unwinds through the cell, which goes back to incomplete; the
\* call does not return
Unwind(t) ==
    /\ tpc[t] = "unwind"
    /\ cell' = "incomplete"
    /\ tpc' = [tpc EXCEPT ![t] = "panicked"]
    /\ UNCHANGED <<CWD, osCwd, initFn, reads, local, seen, calls, chdirs,
                   pureVars, collapseVars>>

\* a waiting thread is woken once the initializer has left the cell
Wake(t) ==
    /\ tpc[t] = "wait"
    /\ cell # "running"
    /\ tpc' = [tpc EXCEPT ![t] = "deref"]
    /\ UNCHANGED <<CWD, osCwd, cell, initFn, reads, local, seen, calls,
                   chdirs, pureVars, collapseVars>>

\* the process's real working directory changes
Chdir ==
    /\ chdirs < MaxChdirs
    /\ \E d \in Cwds \ {osCwd} : osCwd' = d
    /\ chdirs' = chdirs + 1
    /\ UNCHANGED <<CWD, cell, initFn, reads, tpc, local, seen, calls,
                   pureVars, collapseVars>>

\* the process's real working directory is removed
RemoveCwd ==
    /\ chdirs < MaxChdirs
    /\ osCwd # Removed
    /\ osCwd' = Removed
    /\ chdirs' = chdirs + 1
    /\ UNCHANGED <<CWD, cell, initFn, reads, tpc, local, seen, calls,
                   pureVars, collapseVars>>

NextCwd ==
    \/ \E t \in Threads : ResolveAbsolute(t)
    \/ \E t \in Threads : ResolveRelative(t)
    \/ \E t \in Threads : DerefComplete(t)
    \/ \E t \in Threads : DerefTakeInit(t)
    \/ \E t \in Threads : DerefWait(t)
    \/ \E t \in Threads : ReadEnvOk(t)
    \/ \E t \in Threads : ReadEnvErr(t)
    \/ \E t \in Threads : InitPoisoned(t)
    \/ \E t \in Threads : Complete(t)
    \/ \E t \in Threads : Unwind(t)
    \/ \E t \in Threads : Wake(t)
    \/ Chdir
    \/ RemoveCwd

SpecCwd == InitCwd /\ [][NextCwd]_vars

\* C7: the working directory is read from the environment at most once
\* (the closure is gone after the read); every call that used the cwd
\* observed the one cached value, which is the value that one read
\* returned, also when the real working directory has changed since.
CwdReadOnce ==
    /\ reads <= 1
    /\ reads = 0 <=> initFn
    /\ cell = "complete" => reads = 1
    /\ \A t \in Threads :
          seen[t] # <<>> =>
              /\ cell = "complete"
              /\ seen[t][1].value = CWD
              /\ \E u \in Threads : local[u] = CWD

\* every thread has observed the cwd, which the closure read before the
\* real working directory changed and the cell completed after
CwdReadOnceWitness ==
    /\ reads = 1
    /\ \A t \in Threads : seen[t] # <<>>
    /\ \A t \in Threads : seen[t][1].os # seen[t][1].value
    /\ osCwd # Removed

\* the read failed: the cell is incomplete for good and a later call that
\* needs the cwd panicked without a second read
CwdReadFailed ==
    /\ reads = 1
    /\ cell = "incomplete"
    /\ \A t \in Threads : tpc[t] = "panicked"

====
